---- MODULE Spec2Model ----
(***************************************************************************)
(* Model of azure_demo.py: the three service classes (UserService,         *)
(* ClusterService, FileService), the two client-context constructors and   *)
(* main.  The Databricks SDK client is the environment: every remote call  *)
(* either raises at call time or hands back a stream, and every step of a  *)
(* stream yields an entity, ends, or raises.  (The real SDK is a subset:   *)
(* users.list is a generator, dbutils.fs.ls an eager list.)                *)
(*                                                                         *)
(* The program is entered in one of two ways: run as a script, which runs  *)
(* main (pc starts at "main_ws"), or imported, after which a caller        *)
(* invokes one public service method with arguments of its choice          *)
(* (pc = "caller").                                                        *)
(***************************************************************************)
EXTENDS Naturals, Sequences, FiniteSets

VARIABLES
    pc,       \* position of main, or "caller" when a method is called directly
    step,     \* which of main's five service calls is current (1..5)
    started,  \* the service calls main has started, in order
    method,   \* the service method executing ("none" outside a call)
    client,   \* self.client of the executing method: "workspace" | "account"
    arg,      \* user_filter / path argument of the executing method
    mpc,      \* position inside the method
    acc,      \* the local list being built (lst_user / lst_groups)
    stream,   \* the entities the remote stream has yielded to this call so far
    remote,   \* what the remote call did: [status, err]
    exc,      \* the exception bound to e in the executing except clause
    ret,      \* how the method ended: a value, a raised exception, or pending
    log,      \* every record handed to the logging module, in order
    calls     \* every remote SDK call issued, in order, with its arguments

vars == <<pc, step, started, method, client, arg, mpc, acc, stream, remote,
          exc, ret, log, calls>>

(***************************************************************************)
(* Bounds of the exploration.                                              *)
(***************************************************************************)
\* longest remote stream explored when a method is called directly
MaxLen == 2
\* longest remote stream explored for each of main's five calls
MaxMainLen == 1

StreamBound == IF pc = "caller" THEN MaxLen ELSE MaxMainLen

(***************************************************************************)
(* Values.                                                                 *)
(***************************************************************************)
\* Python's None
None == "<None>"

\* str(x) inside an f-string
Str(x) == IF x = None THEN "None" ELSE x

NoError == [type |-> "", msg |-> ""]

\* exceptions the SDK can raise (all subclasses of Exception)
Errors == { [type |-> "PermissionDenied", msg |-> "denied"],
            [type |-> "ConnectionError",  msg |-> "reset"] }

\* str(e) of an exception: its message, the type is not rendered
StrExc(e) == e.msg

\* iam.User as the remote returns it: richer than the projection, and with
\* Optional id / user_name
UserEntities ==
    { [id |-> "1",  user_name |-> "bob", active |-> TRUE],
      [id |-> "2",  user_name |-> "amy", active |-> TRUE],
      [id |-> None, user_name |-> "amy", active |-> TRUE],
      [id |-> "3",  user_name |-> None,  active |-> TRUE] }

GroupEntities   == { [display_name |-> "A"], [display_name |-> "B"] }
ClusterEntities == { [cluster_name |-> "c1"], [cluster_name |-> "c2"] }
FileEntities    == { [path |-> "/FileStore/a"], [path |-> "/FileStore/b"] }

Filters == { "userName co gc", "userName eq x", "" }
Paths   == { "/FileStore/", "/tmp/" }

Pending      == [kind |-> "pending"]
Returned(v)  == [kind |-> "value", val |-> v]
Raised(e)    == [kind |-> "raise", err |-> e]

RemoteIdle       == [status |-> "idle",        err |-> NoError]
RemoteOpen       == [status |-> "open",        err |-> NoError]
RemoteExhausted  == [status |-> "exhausted",   err |-> NoError]
RemoteCallFailed(e) == [status |-> "call_failed", err |-> e]
RemoteIterFailed(e) == [status |-> "iter_failed", err |-> e]

\* one record handed to logging.info / logging.error / logging.critical
LogRecord(level, prefix, text) == [level |-> level, msg |-> <<prefix, text>>]


(***************************************************************************)
(* State after import: logging configured, nothing called yet.  The entry  *)
(* is the script (main) or a direct caller of one public method.           *)
(***************************************************************************)
Init ==
    /\ pc \in {"main_ws", "caller"}
    /\ step = 1
    /\ started = <<>>
    /\ method = "none"
    /\ client = "workspace"
    /\ arg = None
    /\ mpc = "idle"
    /\ acc = <<>>
    /\ stream = <<>>
    /\ remote = RemoteIdle
    /\ exc = NoError
    /\ ret = Pending
    /\ log = <<>>
    /\ calls = <<>>

\* entering a service method: fresh locals, nothing called on the remote yet
Invoke(m, c, a) ==
    /\ method' = m
    /\ client' = c
    /\ arg' = a
    /\ mpc' = "call"
    /\ acc' = <<>>
    /\ stream' = <<>>
    /\ remote' = RemoteIdle
    /\ exc' = NoError
    /\ ret' = Pending

Frame == <<method, client, arg>>
Main  == <<pc, step, started>>

(***************************************************************************)
(* UserService                                                             *)
(***************************************************************************)
\* the keyword arguments list_users forwards to client.users.list
ListUsersArgs(attributes, sort_by, user_filter, sort_order) ==
    [attributes |-> attributes, sort_by |-> sort_by,
     filter |-> user_filter, sort_order |-> sort_order]

\* variant: the sort order is left ascending
GetFilteredUsersCriteria_Ascending(user_filter) ==
    ListUsersArgs("id,userName", "userName", user_filter, "ASCENDING")

\* the fixed criteria get_filtered_users passes to list_users
GetFilteredUsersCriteria(user_filter) ==
    ListUsersArgs("id,userName", "userName", user_filter, "DESCENDING")

\* variant: an absent field is replaced by an empty string
UserDict_Default(u) ==
    [id        |-> IF u.id = None THEN "" ELSE u.id,
     user_name |-> IF u.user_name = None THEN "" ELSE u.user_name]

\* user_dict = {"id": u.id, "user_name": u.user_name}
UserDict(u) == [id |-> u.id, user_name |-> u.user_name]

\* variant: a record already in the list is not appended again
AppendUser_Dedup(lst, u) ==
    IF \E i \in DOMAIN lst : lst[i] = [id |-> u.id, user_name |-> u.user_name]
      THEN lst
      ELSE Append(lst, [id |-> u.id, user_name |-> u.user_name])

\* lst_user.append(user_dict)
AppendUser(lst, u) == Append(lst, UserDict(u))

\* list_users, as called from get_filtered_users: one client.users.list call;
\* it returns the stream, or raises, which list_users logs and re-raises
list_users ==
    /\ method = "get_filtered_users"
    /\ mpc = "call"
    /\ calls' = Append(calls, [client |-> client, op |-> "users.list",
                               args |-> GetFilteredUsersCriteria(arg)])
    /\ \/ /\ remote' = RemoteOpen
          /\ mpc' = "loop"
          /\ UNCHANGED <<log, exc>>
       \/ \E e \in Errors :
            /\ remote' = RemoteCallFailed(e)
            /\ log' = Append(log, LogRecord("ERROR", "Error listing users: ",
                                            StrExc(e)))
            /\ exc' = e
            /\ mpc' = "except"
    /\ UNCHANGED <<Main, Frame, acc, stream, ret>>

\* for u in all_users: ... ; return lst_user
get_filtered_users_loop ==
    /\ method = "get_filtered_users"
    /\ mpc = "loop"
    /\ \/ \E u \in UserEntities :
            /\ Len(stream) < StreamBound
            /\ stream' = Append(stream, u)
            /\ acc' = AppendUser(acc, u)
            /\ UNCHANGED <<remote, exc, ret, mpc>>
       \/ /\ remote' = RemoteExhausted
          /\ ret' = Returned(acc)
          /\ mpc' = "returned"
          /\ UNCHANGED <<stream, acc, exc>>
       \/ \E e \in Errors :
            /\ remote' = RemoteIterFailed(e)
            /\ exc' = e
            /\ mpc' = "except"
            /\ UNCHANGED <<stream, acc, ret>>
    /\ UNCHANGED <<Main, Frame, log, calls>>

\* variant: the handler raises a new exception built from the message
get_filtered_users_except_Wrap ==
    /\ method = "get_filtered_users"
    /\ mpc = "except"
    /\ log' = Append(log, LogRecord("ERROR", "Error getting filtered users: ",
                                    StrExc(exc)))
    /\ ret' = Raised([type |-> "RuntimeError", msg |-> StrExc(exc)])
    /\ mpc' = "raised"
    /\ UNCHANGED <<Main, Frame, acc, stream, remote, exc, calls>>

\* except Exception as e: logging.error(...); raise
get_filtered_users_except ==
    /\ method = "get_filtered_users"
    /\ mpc = "except"
    /\ log' = Append(log, LogRecord("ERROR", "Error getting filtered users: ",
                                    StrExc(exc)))
    /\ ret' = Raised(exc)
    /\ mpc' = "raised"
    /\ UNCHANGED <<Main, Frame, acc, stream, remote, exc, calls>>

\* all_groups = self.client.groups.list()
list_groups_call ==
    /\ method = "list_groups"
    /\ mpc = "call"
    /\ calls' = Append(calls, [client |-> client, op |-> "groups.list",
                               args |-> <<>>])
    /\ \/ /\ remote' = RemoteOpen
          /\ mpc' = "loop"
          /\ UNCHANGED exc
       \/ \E e \in Errors :
            /\ remote' = RemoteCallFailed(e)
            /\ exc' = e
            /\ mpc' = "except"
    /\ UNCHANGED <<Main, Frame, acc, stream, ret, log>>

\* lst_groups = [group.display_name for group in all_groups]; return lst_groups
list_groups_loop ==
    /\ method = "list_groups"
    /\ mpc = "loop"
    /\ \/ \E g \in GroupEntities :
            /\ Len(stream) < StreamBound
            /\ stream' = Append(stream, g)
            /\ acc' = Append(acc, g.display_name)
            /\ UNCHANGED <<remote, exc, ret, mpc>>
       \/ /\ remote' = RemoteExhausted
          /\ ret' = Returned(acc)
          /\ mpc' = "returned"
          /\ UNCHANGED <<stream, acc, exc>>
       \/ \E e \in Errors :
            /\ remote' = RemoteIterFailed(e)
            /\ exc' = e
            /\ mpc' = "except"
            /\ UNCHANGED <<stream, acc, ret>>
    /\ UNCHANGED <<Main, Frame, log, calls>>

\* variant: the handler logs and returns what was collected so far
list_groups_except_Partial ==
    /\ method = "list_groups"
    /\ mpc = "except"
    /\ log' = Append(log, LogRecord("ERROR", "Error listing groups: ",
                                    StrExc(exc)))
    /\ ret' = Returned(acc)
    /\ mpc' = "returned"
    /\ UNCHANGED <<Main, Frame, acc, stream, remote, exc, calls>>

\* except Exception as e: logging.error(...); raise
list_groups_except ==
    /\ method = "list_groups"
    /\ mpc = "except"
    /\ log' = Append(log, LogRecord("ERROR", "Error listing groups: ",
                                    StrExc(exc)))
    /\ ret' = Raised(exc)
    /\ mpc' = "raised"
    /\ UNCHANGED <<Main, Frame, acc, stream, remote, exc, calls>>

(***************************************************************************)
(* ClusterService                                                          *)
(***************************************************************************)
\* variant: list_clusters lets the exception pass without logging it
list_clusters_NoLog ==
    /\ method = "print_cluster_names"
    /\ mpc = "call"
    /\ calls' = Append(calls, [client |-> client, op |-> "clusters.list",
                               args |-> <<>>])
    /\ \/ /\ remote' = RemoteOpen
          /\ mpc' = "loop"
          /\ UNCHANGED exc
       \/ \E e \in Errors :
            /\ remote' = RemoteCallFailed(e)
            /\ exc' = e
            /\ mpc' = "except"
    /\ UNCHANGED <<Main, Frame, acc, stream, ret, log>>

\* list_clusters, as called from print_cluster_names
list_clusters ==
    /\ method = "print_cluster_names"
    /\ mpc = "call"
    /\ calls' = Append(calls, [client |-> client, op |-> "clusters.list",
                               args |-> <<>>])
    /\ \/ /\ remote' = RemoteOpen
          /\ mpc' = "loop"
          /\ UNCHANGED <<log, exc>>
       \/ \E e \in Errors :
            /\ remote' = RemoteCallFailed(e)
            /\ log' = Append(log, LogRecord("ERROR", "Error listing clusters: ",
                                            StrExc(e)))
            /\ exc' = e
            /\ mpc' = "except"
    /\ UNCHANGED <<Main, Frame, acc, stream, ret>>

\* variant: the names are collected into a list instead of being logged
print_cluster_names_loop_Buffered ==
    /\ method = "print_cluster_names"
    /\ mpc = "loop"
    /\ \/ \E c \in ClusterEntities :
            /\ Len(stream) < StreamBound
            /\ stream' = Append(stream, c)
            /\ acc' = Append(acc, Str(c.cluster_name))
            /\ UNCHANGED <<remote, exc, ret, mpc>>
       \/ /\ remote' = RemoteExhausted
          /\ ret' = Returned(None)
          /\ mpc' = "returned"
          /\ UNCHANGED <<stream, acc, exc>>
       \/ \E e \in Errors :
            /\ remote' = RemoteIterFailed(e)
            /\ exc' = e
            /\ mpc' = "except"
            /\ UNCHANGED <<stream, acc, ret>>
    /\ UNCHANGED <<Main, Frame, log, calls>>

\* for cluster in clusters: logging.info(f"Cluster name: {cluster.cluster_name}")
print_cluster_names_loop ==
    /\ method = "print_cluster_names"
    /\ mpc = "loop"
    /\ \/ \E c \in ClusterEntities :
            /\ Len(stream) < StreamBound
            /\ stream' = Append(stream, c)
            /\ log' = Append(log, LogRecord("INFO", "Cluster name: ",
                                            Str(c.cluster_name)))
            /\ UNCHANGED <<remote, exc, ret, mpc>>
       \/ /\ remote' = RemoteExhausted
          /\ ret' = Returned(None)
          /\ mpc' = "returned"
          /\ UNCHANGED <<stream, log, exc>>
       \/ \E e \in Errors :
            /\ remote' = RemoteIterFailed(e)
            /\ exc' = e
            /\ mpc' = "except"
            /\ UNCHANGED <<stream, log, ret>>
    /\ UNCHANGED <<Main, Frame, acc, calls>>

\* except Exception as e: logging.error(...); raise
print_cluster_names_except ==
    /\ method = "print_cluster_names"
    /\ mpc = "except"
    /\ log' = Append(log, LogRecord("ERROR", "Error printing cluster names: ",
                                    StrExc(exc)))
    /\ ret' = Raised(exc)
    /\ mpc' = "raised"
    /\ UNCHANGED <<Main, Frame, acc, stream, remote, exc, calls>>

(***************************************************************************)
(* FileService                                                             *)
(***************************************************************************)
\* list_files(path), as called from print_file_paths
list_files ==
    /\ method = "print_file_paths"
    /\ mpc = "call"
    /\ calls' = Append(calls, [client |-> client, op |-> "dbutils.fs.ls",
                               args |-> <<arg>>])
    /\ \/ /\ remote' = RemoteOpen
          /\ mpc' = "loop"
          /\ UNCHANGED <<log, exc>>
       \/ \E e \in Errors :
            /\ remote' = RemoteCallFailed(e)
            /\ log' = Append(log, LogRecord("ERROR",
                                 "Error listing files in " \o arg \o ": ",
                                 StrExc(e)))
            /\ exc' = e
            /\ mpc' = "except"
    /\ UNCHANGED <<Main, Frame, acc, stream, ret>>

\* variant: the paths are collected and logged only when the stream ends
print_file_paths_loop_Buffered ==
    /\ method = "print_file_paths"
    /\ mpc = "loop"
    /\ \/ \E f \in FileEntities :
            /\ Len(stream) < StreamBound
            /\ stream' = Append(stream, f)
            /\ acc' = Append(acc, LogRecord("INFO", "File path: ", Str(f.path)))
            /\ UNCHANGED <<remote, exc, ret, mpc, log>>
       \/ /\ remote' = RemoteExhausted
          /\ ret' = Returned(None)
          /\ mpc' = "returned"
          /\ log' = log \o acc
          /\ UNCHANGED <<stream, acc, exc>>
       \/ \E e \in Errors :
            /\ remote' = RemoteIterFailed(e)
            /\ exc' = e
            /\ mpc' = "except"
            /\ UNCHANGED <<stream, acc, ret, log>>
    /\ UNCHANGED <<Main, Frame, calls>>

\* for file in files: logging.info(f"File path: {file.path}")
print_file_paths_loop ==
    /\ method = "print_file_paths"
    /\ mpc = "loop"
    /\ \/ \E f \in FileEntities :
            /\ Len(stream) < StreamBound
            /\ stream' = Append(stream, f)
            /\ log' = Append(log, LogRecord("INFO", "File path: ", Str(f.path)))
            /\ UNCHANGED <<remote, exc, ret, mpc>>
       \/ /\ remote' = RemoteExhausted
          /\ ret' = Returned(None)
          /\ mpc' = "returned"
          /\ UNCHANGED <<stream, log, exc>>
       \/ \E e \in Errors :
            /\ remote' = RemoteIterFailed(e)
            /\ exc' = e
            /\ mpc' = "except"
            /\ UNCHANGED <<stream, log, ret>>
    /\ UNCHANGED <<Main, Frame, acc, calls>>

\* except Exception as e: logging.error(...); raise
print_file_paths_except ==
    /\ method = "print_file_paths"
    /\ mpc = "except"
    /\ log' = Append(log, LogRecord("ERROR",
                         "Error printing file paths from " \o arg \o ": ",
                         StrExc(exc)))
    /\ ret' = Raised(exc)
    /\ mpc' = "raised"
    /\ UNCHANGED <<Main, Frame, acc, stream, remote, exc, calls>>

(***************************************************************************)
(* main                                                                    *)
(***************************************************************************)
\* the five service calls of main's try block, in program order
StepMethod(k) ==
    CASE k = 1 -> "get_filtered_users"
      [] k = 2 -> "list_groups"
      [] k = 3 -> "get_filtered_users"
      [] k = 4 -> "print_cluster_names"
      [] k = 5 -> "print_file_paths"

StepClient(k) == IF k \in {2, 3} THEN "account" ELSE "workspace"

StepArg(k) ==
    CASE k \in {1, 3} -> "userName co gc"
      [] k = 5        -> "/FileStore/"
      [] OTHER        -> None

\* the logging.info that follows the calls that return a value
StepLabel(k) ==
    CASE k = 1 -> "Workspace users: "
      [] k = 2 -> "Account Groups: "
      [] k = 3 -> "Account users: "

LastStep == 5

Method == <<method, client, arg, mpc, acc, stream, remote, ret>>

\* workspace_service = WorkspaceUserService(): WorkspaceClient(profile=...)
\* authenticates or raises; the statement is outside main's try block
main_workspace_service ==
    /\ pc = "main_ws"
    /\ \/ /\ pc' = "main_acct"
          /\ UNCHANGED exc
       \/ \E e \in Errors :
            /\ pc' = "main_uncaught"
            /\ exc' = e
    /\ UNCHANGED <<step, started, Method, log, calls>>

\* account_service = AccountUserService(): AccountClient(...) likewise
main_account_service ==
    /\ pc = "main_acct"
    /\ \/ /\ pc' = "main_services"
          /\ UNCHANGED exc
       \/ \E e \in Errors :
            /\ pc' = "main_uncaught"
            /\ exc' = e
    /\ UNCHANGED <<step, started, Method, log, calls>>

\* cluster_service = ClusterService(...); file_service = FileService(...):
\* plain attribute stores, then the try block is entered
main_services ==
    /\ pc = "main_services"
    /\ pc' = "main_try"
    /\ UNCHANGED <<step, started, Method, exc, log, calls>>

\* the next service call of the try block
main_call ==
    /\ pc = "main_try"
    /\ mpc = "idle"
    /\ Invoke(StepMethod(step), StepClient(step), StepArg(step))
    /\ started' = Append(started, step)
    /\ UNCHANGED <<pc, step, log, calls>>

\* the call returned: log its value (calls 1..3), go on to the next
\* statement, or fall off the end of the try block and return from main
main_return ==
    /\ pc = "main_try"
    /\ mpc = "returned"
    /\ log' = IF step \in {1, 2, 3}
                THEN Append(log, LogRecord("INFO", StepLabel(step), ret.val))
                ELSE log
    /\ IF step < LastStep
         THEN /\ step' = step + 1
              /\ pc' = pc
         ELSE /\ pc' = "main_exit"
              /\ step' = step
    /\ method' = "none"
    /\ mpc' = "idle"
    /\ UNCHANGED <<started, client, arg, acc, stream, remote, exc, ret, calls>>

\* variant: the failure is logged and main goes on with the next call
main_except_Continue ==
    /\ pc = "main_try"
    /\ mpc = "raised"
    /\ log' = Append(log, LogRecord("CRITICAL", "Unhandled error: ",
                                    StrExc(ret.err)))
    /\ IF step < LastStep
         THEN /\ step' = step + 1
              /\ pc' = pc
         ELSE /\ pc' = "main_exit"
              /\ step' = step
    /\ method' = "none"
    /\ mpc' = "idle"
    /\ UNCHANGED <<started, client, arg, acc, stream, remote, exc, ret, calls>>

\* except Exception as e: logging.critical(f"Unhandled error: {e}")
main_except ==
    /\ pc = "main_try"
    /\ mpc = "raised"
    /\ log' = Append(log, LogRecord("CRITICAL", "Unhandled error: ",
                                    StrExc(ret.err)))
    /\ pc' = "main_exit"
    /\ method' = "none"
    /\ mpc' = "idle"
    /\ UNCHANGED <<step, started, client, arg, acc, stream, remote, exc, ret,
                   calls>>

(***************************************************************************)
(* A caller of the imported module: one call of one public method, on a    *)
(* service built around either kind of client.                             *)
(***************************************************************************)
caller_invoke ==
    /\ pc = "caller"
    /\ mpc = "idle"
    /\ \E c \in {"workspace", "account"} :
         \/ \E f \in Filters : Invoke("get_filtered_users", c, f)
         \/ Invoke("list_groups", c, None)
         \/ Invoke("print_cluster_names", c, None)
         \/ \E p \in Paths : Invoke("print_file_paths", c, p)
    /\ UNCHANGED <<Main, log, calls>>

Next ==
    \/ main_workspace_service
    \/ main_account_service
    \/ main_services
    \/ main_call
    \/ main_return
    \/ main_except
    \/ caller_invoke
    \/ list_users
    \/ get_filtered_users_loop
    \/ get_filtered_users_except
    \/ list_groups_call
    \/ list_groups_loop
    \/ list_groups_except
    \/ list_clusters
    \/ print_cluster_names_loop
    \/ print_cluster_names_except
    \/ list_files
    \/ print_file_paths_loop
    \/ print_file_paths_except

Spec == Init /\ [][Next]_vars

(***************************************************************************)
(* Properties                                                              *)
(***************************************************************************)
CountLevel(level) == Cardinality({i \in DOMAIN log : log[i].level = level})

\* r is the log record <level, prefix + text>
EntryIs(r, level, prefix, text) ==
    /\ r.level = level
    /\ r.msg[1] = prefix
    /\ r.msg[2] = text

RemoteFailed == remote.status \in {"call_failed", "iter_failed"}

\* C1: get_filtered_users returns exactly one record per entity of the remote
\* stream, the i-th being {id: s[i].id, user_name: s[i].user_name}: same
\* length, same order, nothing sorted, filtered or dropped; an empty stream
\* gives an empty list.
C1_PureProjection ==
    (method = "get_filtered_users" /\ mpc = "returned") =>
        /\ ret.kind = "value"
        /\ Len(ret.val) = Len(stream)
        /\ \A i \in 1..Len(stream) :
             ret.val[i] = [id |-> stream[i].id, user_name |-> stream[i].user_name]

\* a returned call whose stream came in ascending order and repeats a name
C1_Witness ==
    /\ method = "get_filtered_users"
    /\ mpc = "returned"
    /\ Len(stream) = 2
    /\ stream[1] = [id |-> "2", user_name |-> "amy", active |-> TRUE]
    /\ stream[2] = [id |-> "2", user_name |-> "amy", active |-> TRUE]
    /\ Len(ret.val) = 2

\* C2: one invocation of get_filtered_users(f) issues exactly one users.list
\* call, carrying attributes "id,userName", sort_by "userName", sort_order
\* DESCENDING and the caller's filter f unchanged; the call is never repeated.
\* (Under main every service call issues exactly one remote call, and every
\* users.list call carries main's filter.)
C2_OneFixedCall ==
    /\ (pc = "caller" /\ method = "get_filtered_users") =>
          IF mpc = "call"
            THEN calls = <<>>
            ELSE /\ Len(calls) = 1
                 /\ calls[1].client = client
                 /\ calls[1].op = "users.list"
                 /\ calls[1].args = [attributes |-> "id,userName",
                                     sort_by    |-> "userName",
                                     filter     |-> arg,
                                     sort_order |-> "DESCENDING"]
    /\ pc # "caller" =>
          /\ Len(calls) = Len(started) - (IF mpc = "call" THEN 1 ELSE 0)
          /\ \A i \in DOMAIN calls :
               calls[i].op = "users.list" =>
                 calls[i].args = [attributes |-> "id,userName",
                                  sort_by    |-> "userName",
                                  filter     |-> "userName co gc",
                                  sort_order |-> "DESCENDING"]

\* a direct call with a filter other than main's has run to its return
C2_Witness ==
    /\ pc = "caller"
    /\ method = "get_filtered_users"
    /\ arg = "userName eq x"
    /\ mpc = "returned"
    /\ Len(stream) = 2
    /\ Len(calls) = 1

\* C3: when the stream raises during iteration (users.list itself returned),
\* get_filtered_users logs exactly one ERROR record, its own, and raises the
\* very exception the stream raised.
C3_IterationFailure ==
    (method = "get_filtered_users" /\ mpc = "raised"
                                   /\ remote.status = "iter_failed") =>
        /\ ret = [kind |-> "raise", err |-> remote.err]
        /\ CountLevel("ERROR") = 1
        /\ EntryIs(log[Len(log)], "ERROR", "Error getting filtered users: ",
                   remote.err.msg)

\* the stream yielded one user and then raised
C3_Witness ==
    /\ method = "get_filtered_users"
    /\ mpc = "raised"
    /\ remote.status = "iter_failed"
    /\ Len(stream) = 1

\* C6: once the remote call or its stream has failed, get_filtered_users and
\* list_groups end by raising that error and hand back no value: the records
\* collected before the failure never reach the caller.
C6_AllOrNothing ==
    (method \in {"get_filtered_users", "list_groups"} /\ RemoteFailed
        /\ mpc \in {"returned", "raised"}) =>
        /\ ret = [kind |-> "raise", err |-> remote.err]
        /\ "val" \notin DOMAIN ret

\* list_groups had collected a name when the stream failed
C6_Witness ==
    /\ method = "list_groups"
    /\ mpc = "raised"
    /\ remote.status = "iter_failed"
    /\ Len(acc) >= 1

\* C7 as stated: every record of a returned list has id and user_name
\* non-null, whatever entities the remote produced.
C7_NonNullFields ==
    (method = "get_filtered_users" /\ mpc = "returned") =>
        \A i \in DOMAIN ret.val :
            /\ ret.val[i].id # None
            /\ ret.val[i].user_name # None

\* C7 amended: every record of a returned list carries both keys, and each is
\* null exactly when the entity's field is absent.
C7_FieldsAsReceived ==
    (method = "get_filtered_users" /\ mpc = "returned") =>
        \A i \in DOMAIN ret.val \cap DOMAIN stream :
            /\ DOMAIN ret.val[i] = {"id", "user_name"}
            /\ (ret.val[i].id = None) <=> (stream[i].id = None)
            /\ (ret.val[i].user_name = None) <=> (stream[i].user_name = None)

\* a returned list holding a record projected from an entity without id
C7_Witness ==
    /\ method = "get_filtered_users"
    /\ mpc = "returned"
    /\ \E i \in DOMAIN ret.val :
         /\ stream[i].id = None
         /\ ret.val[i].id = None
         /\ ret.val[i].user_name = "amy"

IsPrefix(a, b) == Len(a) <= Len(b) /\ SubSeq(b, 1, Len(a)) = a

\* the last n records of the log
LastRecords(lg, n) == SubSeq(lg, Len(lg) - n + 1, Len(lg))

\* one INFO record per entity of s, in order, as the print method m words it
StreamLines(m, s) ==
    [i \in 1..Len(s) |->
        [level |-> "INFO",
         msg   |-> IF m = "print_cluster_names"
                     THEN <<"Cluster name: ", s[i].cluster_name>>
                     ELSE <<"File path: ", s[i].path>>]]

Printers  == {"print_cluster_names", "print_file_paths"}
Composite == {"get_filtered_users", "print_cluster_names", "print_file_paths"}

\* the message prefix of the pass-through (inner) handler of composite m
InnerPrefix(m, a) ==
    CASE m = "get_filtered_users"  -> "Error listing users: "
      [] m = "print_cluster_names" -> "Error listing clusters: "
      [] m = "print_file_paths"    -> "Error listing files in " \o a \o ": "

\* the message prefix of the handler of composite m itself
OuterPrefix(m, a) ==
    CASE m = "get_filtered_users"  -> "Error getting filtered users: "
      [] m = "print_cluster_names" -> "Error printing cluster names: "
      [] m = "print_file_paths"    -> "Error printing file paths from " \o a \o ": "

\* main's five calls as the program text orders them
MainMethods == <<"get_filtered_users", "list_groups", "get_filtered_users",
                 "print_cluster_names", "print_file_paths">>
MainOps     == <<"users.list", "groups.list", "users.list", "clusters.list",
                 "dbutils.fs.ls">>
MainClients == <<"workspace", "account", "account", "workspace", "workspace">>
MainLabels  == <<"Workspace users: ", "Account Groups: ", "Account users: ">>

\* C4 as stated: whatever fails under main, client construction included, main
\* ends by returning normally with exactly one CRITICAL record logged.
C4_AlwaysCaught ==
    (pc # "caller" /\ exc # NoError /\ mpc = "idle") =>
        /\ pc = "main_exit"
        /\ CountLevel("CRITICAL") = 1

\* C5, in every state of a run of main: the calls are started in program
\* order on the right clients; the value of every earlier call (1..3) is in
\* the log; after a failing call k nothing beyond k was started, exactly one
\* CRITICAL record closes the log and main has returned normally.
C5_State ==
    pc # "caller" =>
        /\ Len(started) <= 5
        /\ \A i \in DOMAIN started : started[i] = i
        /\ \A i \in DOMAIN calls :
             calls[i].op = MainOps[i] /\ calls[i].client = MainClients[i]
        /\ pc \in {"main_try", "main_exit"} =>
             \A j \in 1..(step - 1) :
                j <= 3 => \E i \in DOMAIN log :
                            log[i].level = "INFO" /\ log[i].msg[1] = MainLabels[j]
        /\ (ret.kind = "raise" /\ mpc = "idle") =>
             /\ pc = "main_exit"
             /\ Len(started) = step
             /\ CountLevel("CRITICAL") = 1
             /\ EntryIs(log[Len(log)], "CRITICAL", "Unhandled error: ",
                        ret.err.msg)
        /\ ret.kind # "raise" => CountLevel("CRITICAL") = 0

\* C5, in every step of a run of main: the log only grows; a call that has
\* raised is followed by no further call; main moves to the next call only
\* with the output of the current one emitted.
C5_Step ==
    /\ IsPrefix(log, log')
    /\ (pc = "main_exit" \/ mpc = "raised") => started' = started
    /\ (pc = "main_try" /\ step' # step) =>
          /\ step' = step + 1
          /\ mpc = "returned"
          /\ step <= 3 =>
               log' = Append(log, [level |-> "INFO",
                                   msg |-> <<MainLabels[step], ret.val>>])
          /\ step = 4 =>
               /\ Len(log') >= Len(stream)
               /\ LastRecords(log', Len(stream))
                    = StreamLines("print_cluster_names", stream)

\* C5: main runs workspace users, account groups, account users, cluster
\* names, file paths in that order; when call k fails the output of every
\* earlier call is already emitted and stays, no later call is started, one
\* CRITICAL record is logged and main returns normally.
C5_FailFastInOrder == [](C5_State) /\ [][C5_Step]_vars

\* cluster listing failed: three values logged, file listing never started
C5_Witness ==
    /\ pc = "main_exit"
    /\ ret.kind = "raise"
    /\ step = 4
    /\ started = <<1, 2, 3, 4>>
    /\ Len(calls) = 4
    /\ CountLevel("INFO") >= 3

\* C8: a direct call of print_cluster_names / print_file_paths whose stream of
\* n entities ends without error has logged exactly n INFO records, the i-th
\* for the i-th entity, no ERROR record, and has returned normally; n = 0
\* gives an empty log.
C8_OneLinePerEntity ==
    (pc = "caller" /\ method \in Printers /\ mpc = "returned") =>
        /\ ret = [kind |-> "value", val |-> None]
        /\ remote.status = "exhausted"
        /\ Len(log) = Len(stream)
        /\ log = StreamLines(method, stream)

\* print_cluster_names returned after a stream of two different clusters
C8_Witness ==
    /\ pc = "caller"
    /\ method = "print_cluster_names"
    /\ mpc = "returned"
    /\ stream = <<[cluster_name |-> "c2"], [cluster_name |-> "c1"]>>
    /\ Len(log) = 2

\* C9, in every state of a direct call of a print method: while the stream is
\* being consumed the log holds one INFO record per entity consumed so far;
\* after a failure of the stream those records are followed by the method's
\* single ERROR record and the stream's exception is raised.
C9_State ==
    (pc = "caller" /\ method \in Printers) =>
        /\ mpc = "loop" => log = StreamLines(method, stream)
        /\ (mpc = "except" /\ remote.status = "iter_failed") =>
             log = StreamLines(method, stream)
        /\ (mpc = "raised" /\ remote.status = "iter_failed") =>
             /\ Len(log) = Len(stream) + 1
             /\ SubSeq(log, 1, Len(stream)) = StreamLines(method, stream)
             /\ EntryIs(log[Len(log)], "ERROR", OuterPrefix(method, arg),
                        remote.err.msg)
             /\ ret = [kind |-> "raise", err |-> remote.err]

\* C9: the print methods stream: each entity's record is logged when the
\* entity is consumed and is never taken back, so a stream failing after k
\* entities leaves exactly k INFO records, then one ERROR record, then the
\* re-raised error.
C9_Streaming == [](C9_State) /\ [][IsPrefix(log, log')]_vars

\* print_file_paths raised after its stream yielded two files and failed
C9_Witness ==
    /\ pc = "caller"
    /\ method = "print_file_paths"
    /\ mpc = "raised"
    /\ remote.status = "iter_failed"
    /\ Len(stream) = 2
    /\ Len(log) = 3

\* C10: when the remote call raises at call time, a composite method has
\* logged two ERROR records by the time it raises, the pass-through's first
\* and its own second, and raises the same exception; under main exactly one
\* CRITICAL record follows them.
C10_TwoErrorRecords ==
    /\ (method \in Composite /\ remote.status = "call_failed"
                             /\ mpc = "raised") =>
          /\ ret = [kind |-> "raise", err |-> remote.err]
          /\ CountLevel("ERROR") = 2
          /\ Len(log) >= 2
          /\ EntryIs(log[Len(log) - 1], "ERROR", InnerPrefix(method, arg),
                     remote.err.msg)
          /\ EntryIs(log[Len(log)], "ERROR", OuterPrefix(method, arg),
                     remote.err.msg)
    /\ (pc = "main_exit" /\ ret.kind = "raise" /\ step \in {1, 3, 4, 5}
                         /\ remote.status = "call_failed") =>
          /\ ret.err = remote.err
          /\ CountLevel("ERROR") = 2
          /\ CountLevel("CRITICAL") = 1
          /\ Len(log) >= 3
          /\ EntryIs(log[Len(log) - 2], "ERROR",
                     InnerPrefix(MainMethods[step], arg), remote.err.msg)
          /\ EntryIs(log[Len(log) - 1], "ERROR",
                     OuterPrefix(MainMethods[step], arg), remote.err.msg)
          /\ EntryIs(log[Len(log)], "CRITICAL", "Unhandled error: ",
                     remote.err.msg)

\* main has returned after clusters.list raised at call time
C10_Witness ==
    /\ pc = "main_exit"
    /\ step = 4
    /\ remote.status = "call_failed"
    /\ Len(log) = 6

====
